---- MODULE Spec2Model ----
(***************************************************************************)
(* linkedin-contentful-sync: the dedup key, the merge engine and the       *)
(* scrape command that drives them.                                        *)
(*                                                                         *)
(* Strings that take part in identity (name, company) and the keys of JSON *)
(* objects are sequences of characters, a character being its Unicode code *)
(* point, so that strings.TrimSpace, strings.ToLower and the key matching  *)
(* of encoding/json act on them character by character.  Go slices are     *)
(* modelled with their backing arrays: a slice is [arr, len, cap] and mem  *)
(* maps an array address to its elements, so that copy, append and writes  *)
(* through &merged[idx] alias exactly as in Go.                            *)
(***************************************************************************)
EXTENDS Integers, Sequences, FiniteSets, TLC

VARIABLES
    \* SpecKey: one call of dedupeKey
    kname, kcompany, kkey, kpc,
    \* the Go heap: mem[a] is the backing array at address a
    mem,
    \* SpecMerge: one call of Merge and a second call on its result
    existing, scraped, merged, newCount, remerged, reCount, inE, inI, mpc,
    \* Spec: the scrape command (scrapeCmd.RunE) against the Contentful entry;
    \* it shares mem, scraped, merged and, as the record of what Merge was
    \* given, inE and inI
    store, pc, forceFlag, translateFlag, result, newIndices, upPos,
    entryID, newVersion, err, sent,
    \* SpecRuns: the number of the run, when the command is run again and again
    runs,
    \* SpecPeer: a second run of the command against the same entry, reduced
    \* to its requests: [pc, version, newVersion, content, sent]
    peer,
    \* Step 5 of the command: the build log entry in Contentful, and what the
    \* run has fetched and computed of it
    buildLog, logRun

kvars == <<kname, kcompany, kkey, kpc>>
mvars == <<mem, existing, scraped, merged, newCount, remerged, reCount, inE, inI, mpc>>
xvars == <<runs, peer, buildLog, logRun>>
ovars == <<store, pc, forceFlag, translateFlag, result, newIndices, upPos,
           entryID, newVersion, err, sent, xvars>>
\* what the scrape command never touches
hvars == <<kvars, existing, newCount, remerged, reCount, mpc, xvars>>
vars == <<kvars, mvars, ovars>>

(***************************************************************************)
(* Bounds and input universes                                              *)
(***************************************************************************)
MaxNameLen == 2
MaxCompanyLen == 1

\* a letter in both cases, k (U+006B) and KELVIN SIGN (U+212A, an upper-case
\* letter above U+00FF), the blank (U+0020), the EM SPACE (U+2003, white
\* space above U+00FF) and the separator | (U+007C)
Alphabet == {107, 8490, 32, 8195, 124}

RECURSIVE StrUpTo(_)
StrUpTo(n) ==
    IF n = 0 THEN {<<>>}
    ELSE LET shorter == StrUpTo(n - 1)
         IN shorter \cup {Append(s, c) : s \in shorter, c \in Alphabet}

NameInputs == StrUpTo(MaxNameLen)
CompanyInputs == StrUpTo(MaxCompanyLen)

(***************************************************************************)
(* strings.TrimSpace / strings.ToLower as merge.go uses them               *)
(***************************************************************************)
\* unicode.IsSpace, the white space strings.TrimSpace cuts off: up to
\* U+00FF the characters of its switch, above that the White_Space table
WhiteSpaceLatin1 ==
    {9, 10, 11, 12, 13,  \* \t \n \v \f \r
     32,                 \* blank
     133,                \* U+0085 next line
     160}                \* U+00A0 no-break space

WhiteSpaceTable ==
    {5760}               \* U+1680 ogham space mark
    \cup (8192..8202)    \* U+2000 en quad .. U+200A hair space
    \cup {8232, 8233,    \* U+2028 line separator, U+2029 paragraph separator
          8239,          \* U+202F narrow no-break space
          8287,          \* U+205F medium mathematical space
          12288}         \* U+3000 ideographic space

WhiteSpace == WhiteSpaceLatin1 \cup WhiteSpaceTable

IsSpace(c) ==
    IF c <= 255 THEN c \in WhiteSpaceLatin1 ELSE c \in WhiteSpaceTable

\* unicode.CaseRanges as unicode.ToLower reads it, above ASCII: <<lo, hi,
\* delta>> lowers every character of lo..hi by adding delta; with delta
\* UpperLower the characters of lo..hi are upper and lower case in turn,
\* starting with an upper-case one (Unicode 15.0)
UpperLower == 1114112

CaseRanges ==
    <<
      <<192, 214, 32>>, <<216, 222, 32>>, <<256, 303, UpperLower>>,
      <<304, 304, -199>>, <<306, 311, UpperLower>>, <<313, 328, UpperLower>>,
      <<330, 375, UpperLower>>, <<376, 376, -121>>, <<377, 382, UpperLower>>,
      <<385, 385, 210>>, <<386, 389, UpperLower>>, <<390, 390, 206>>,
      <<391, 391, 1>>, <<393, 394, 205>>, <<395, 395, 1>>, <<398, 398, 79>>,
      <<399, 399, 202>>, <<400, 400, 203>>, <<401, 401, 1>>,
      <<403, 403, 205>>, <<404, 404, 207>>, <<406, 406, 211>>,
      <<407, 407, 209>>, <<408, 408, 1>>, <<412, 412, 211>>,
      <<413, 413, 213>>, <<415, 415, 214>>, <<416, 421, UpperLower>>,
      <<422, 422, 218>>, <<423, 423, 1>>, <<425, 425, 218>>, <<428, 428, 1>>,
      <<430, 430, 218>>, <<431, 431, 1>>, <<433, 434, 217>>,
      <<435, 438, UpperLower>>, <<439, 439, 219>>, <<440, 440, 1>>,
      <<444, 444, 1>>, <<452, 452, 2>>, <<453, 453, 1>>, <<455, 455, 2>>,
      <<456, 456, 1>>, <<458, 458, 2>>, <<459, 476, UpperLower>>,
      <<478, 495, UpperLower>>, <<497, 497, 2>>, <<498, 501, UpperLower>>,
      <<502, 502, -97>>, <<503, 503, -56>>, <<504, 543, UpperLower>>,
      <<544, 544, -130>>, <<546, 563, UpperLower>>, <<570, 570, 10795>>,
      <<571, 571, 1>>, <<573, 573, -163>>, <<574, 574, 10792>>,
      <<577, 577, 1>>, <<579, 579, -195>>, <<580, 580, 69>>,
      <<581, 581, 71>>, <<582, 591, UpperLower>>, <<880, 883, UpperLower>>,
      <<886, 886, 1>>, <<895, 895, 116>>, <<902, 902, 38>>, <<904, 906, 37>>,
      <<908, 908, 64>>, <<910, 911, 63>>, <<913, 929, 32>>, <<931, 939, 32>>,
      <<975, 975, 8>>, <<984, 1007, UpperLower>>, <<1012, 1012, -60>>,
      <<1015, 1015, 1>>, <<1017, 1017, -7>>, <<1018, 1018, 1>>,
      <<1021, 1023, -130>>, <<1024, 1039, 80>>, <<1040, 1071, 32>>,
      <<1120, 1153, UpperLower>>, <<1162, 1215, UpperLower>>,
      <<1216, 1216, 15>>, <<1217, 1230, UpperLower>>,
      <<1232, 1327, UpperLower>>, <<1329, 1366, 48>>, <<4256, 4293, 7264>>,
      <<4295, 4295, 7264>>, <<4301, 4301, 7264>>, <<5024, 5103, 38864>>,
      <<5104, 5109, 8>>, <<7312, 7354, -3008>>, <<7357, 7359, -3008>>,
      <<7680, 7829, UpperLower>>, <<7838, 7838, -7615>>,
      <<7840, 7935, UpperLower>>, <<7944, 7951, -8>>, <<7960, 7965, -8>>,
      <<7976, 7983, -8>>, <<7992, 7999, -8>>, <<8008, 8013, -8>>,
      <<8025, 8025, -8>>, <<8027, 8027, -8>>, <<8029, 8029, -8>>,
      <<8031, 8031, -8>>, <<8040, 8047, -8>>, <<8072, 8079, -8>>,
      <<8088, 8095, -8>>, <<8104, 8111, -8>>, <<8120, 8121, -8>>,
      <<8122, 8123, -74>>, <<8124, 8124, -9>>, <<8136, 8139, -86>>,
      <<8140, 8140, -9>>, <<8152, 8153, -8>>, <<8154, 8155, -100>>,
      <<8168, 8169, -8>>, <<8170, 8171, -112>>, <<8172, 8172, -7>>,
      <<8184, 8185, -128>>, <<8186, 8187, -126>>, <<8188, 8188, -9>>,
      <<8486, 8486, -7517>>, <<8490, 8490, -8383>>, <<8491, 8491, -8262>>,
      <<8498, 8498, 28>>, <<8544, 8559, 16>>, <<8579, 8579, 1>>,
      <<9398, 9423, 26>>, <<11264, 11311, 48>>, <<11360, 11360, 1>>,
      <<11362, 11362, -10743>>, <<11363, 11363, -3814>>,
      <<11364, 11364, -10727>>, <<11367, 11372, UpperLower>>,
      <<11373, 11373, -10780>>, <<11374, 11374, -10749>>,
      <<11375, 11375, -10783>>, <<11376, 11376, -10782>>,
      <<11378, 11378, 1>>, <<11381, 11381, 1>>, <<11390, 11391, -10815>>,
      <<11392, 11491, UpperLower>>, <<11499, 11502, UpperLower>>,
      <<11506, 11506, 1>>, <<42560, 42605, UpperLower>>,
      <<42624, 42651, UpperLower>>, <<42786, 42799, UpperLower>>,
      <<42802, 42863, UpperLower>>, <<42873, 42876, UpperLower>>,
      <<42877, 42877, -35332>>, <<42878, 42887, UpperLower>>,
      <<42891, 42891, 1>>, <<42893, 42893, -42280>>,
      <<42896, 42899, UpperLower>>, <<42902, 42921, UpperLower>>,
      <<42922, 42922, -42308>>, <<42923, 42923, -42319>>,
      <<42924, 42924, -42315>>, <<42925, 42925, -42305>>,
      <<42926, 42926, -42308>>, <<42928, 42928, -42258>>,
      <<42929, 42929, -42282>>, <<42930, 42930, -42261>>,
      <<42931, 42931, 928>>, <<42932, 42947, UpperLower>>,
      <<42948, 42948, -48>>, <<42949, 42949, -42307>>,
      <<42950, 42950, -35384>>, <<42951, 42954, UpperLower>>,
      <<42960, 42960, 1>>, <<42966, 42969, UpperLower>>, <<42997, 42997, 1>>,
      <<65313, 65338, 32>>, <<66560, 66599, 40>>, <<66736, 66771, 40>>,
      <<66928, 66938, 39>>, <<66940, 66954, 39>>, <<66956, 66962, 39>>,
      <<66964, 66965, 39>>, <<68736, 68786, 64>>, <<71840, 71871, 32>>,
      <<93760, 93791, 32>>, <<125184, 125217, 34>>
    >>

\* The rows of a table that reach into each block of 256 characters, and the
\* last character the table covers: the search of unicode.to for the row.
CaseIndex(table) ==
    [ranges |-> table,
     last |-> table[Len(table)][2],
     rows |-> [b \in 0..(table[Len(table)][2] \div 256) |->
                 {i \in 1..Len(table) :
                     table[i][1] <= 256 * b + 255 /\ table[i][2] >= 256 * b}]]

LowerIndex == CaseIndex(CaseRanges)

\* unicode.to(LowerCase, c, CaseRanges) over an indexed table
ToLowerIn(c, ix) ==
    IF c > ix.last THEN c
    ELSE LET hit == {i \in ix.rows[c \div 256] :
                        ix.ranges[i][1] <= c /\ c <= ix.ranges[i][2]}
         IN IF hit = {} THEN c
            ELSE LET cr == ix.ranges[CHOOSE i \in hit : TRUE]
                 IN IF cr[3] = UpperLower
                    THEN cr[1] + 2 * ((c - cr[1]) \div 2) + 1
                    ELSE c + cr[3]

\* unicode.ToLower
LowerChar(c) ==
    IF c <= 127 THEN IF 65 <= c /\ c <= 90 THEN c + 32 ELSE c
    ELSE ToLowerIn(c, LowerIndex)

RECURSIVE TrimLeft(_)
TrimLeft(s) ==
    IF s # <<>> /\ IsSpace(Head(s)) THEN TrimLeft(Tail(s)) ELSE s

RECURSIVE TrimRight(_)
TrimRight(s) ==
    IF s # <<>> /\ IsSpace(s[Len(s)]) THEN TrimRight(SubSeq(s, 1, Len(s) - 1)) ELSE s

TrimSpace(s) == TrimRight(TrimLeft(s))

ToLower(s) == [i \in 1..Len(s) |-> LowerChar(s[i])]

\* "|"
KeySeparator == <<124>>

\* mutant: the company is trimmed but not lowercased
dedupeKeyCaseSensitiveCompany(name, company) ==
    ToLower(TrimSpace(name)) \o KeySeparator \o TrimSpace(company)

dedupeKey(name, company) ==
    LET n == ToLower(TrimSpace(name))
        c == ToLower(TrimSpace(company))
    IN n \o KeySeparator \o c

(***************************************************************************)
(* Records.  Recommendation is what the scraper yields, Testimonial what   *)
(* the store holds; both carry the same six string fields.  The profile    *)
(* link of a Recommendation is set at scraper.go:334 and read at           *)
(* scrape.go:91; the declaration in src/unnamed/part_001 is of a revision  *)
(* before the field.                                                       *)
(***************************************************************************)
ZeroTestimonial ==
    [name |-> <<>>, role |-> "", company |-> <<>>, quote |-> "",
     avatar |-> "", linkedin |-> ""]

\* (name, company) pairs: PersonA2 is PersonA in another case and with
\* surrounding blanks, PersonB differs from PersonA in the name only,
\* PersonC in the company only.
PersonA == << <<97>>, <<98>> >>          \* "a", "b"
PersonA2 == << <<32, 65>>, <<66, 32>> >>  \* " A", "B "
PersonB == << <<98>>, <<98>> >>          \* "b", "b"
PersonC == << <<97>>, <<>> >>            \* "a", ""

\* who appears with which payload
Profiles ==
    { <<PersonA, 1>>, <<PersonA, 2>>, <<PersonA2, 2>>, <<PersonB, 1>>, <<PersonC, 2>> }

RecOf(p, v) ==
    [name |-> p[1],
     role |-> IF v = 1 THEN "role1" ELSE "role2",
     company |-> p[2],
     quote |-> IF v = 1 THEN "quote1" ELSE "quote2",
     avatar |-> IF v = 1 THEN "" ELSE "img",
     linkedin |-> IF v = 1 THEN "" ELSE "li"]

StoredOf(p, v) ==
    [name |-> p[1],
     role |-> IF v = 1 THEN "role1" ELSE "role2",
     company |-> p[2],
     quote |-> IF v = 1 THEN "quote1" ELSE "quote2",
     avatar |-> IF v = 1 THEN "" ELSE "cdn:old",
     linkedin |-> IF v = 1 THEN "" ELSE "li"]

IncomingInputs == {RecOf(pv[1], pv[2]) : pv \in Profiles}
StoredInputs == {StoredOf(pv[1], pv[2]) : pv \in Profiles}

SeqUpTo(S, n) == UNION {[1..k -> S] : k \in 0..n}

(***************************************************************************)
(* Go slices over the heap                                                 *)
(***************************************************************************)
NilSlice == [arr |-> 0, len |-> 0, cap |-> 0]

\* the elements a slice shows: s[0:len(s)]
Elems(m, s) == IF s.arr = 0 THEN <<>> ELSE SubSeq(m[s.arr], 1, s.len)

\* array a of the heap replaced by arr
WithArray(m, a, arr) == [i \in 1..Len(m) |-> IF i = a THEN arr ELSE m[i]]

\* arr with element k set to x
WithElem(arr, k, x) == [i \in 1..Len(arr) |-> IF i = k THEN x ELSE arr[i]]

\* make([]Testimonial, n): a fresh array of n zero values
Make(m, n) ==
    [mem |-> Append(m, [i \in 1..n |-> ZeroTestimonial]),
     slice |-> [arr |-> Len(m) + 1, len |-> n, cap |-> n]]

\* copy(dst, src): min(len(dst), len(src)) elements, written into dst's array
Copy(m, dst, src) ==
    LET n == IF dst.len < src.len THEN dst.len ELSE src.len
    IN IF n = 0 THEN m
       ELSE WithArray(m, dst.arr,
                [i \in 1..Len(m[dst.arr]) |->
                    IF i <= n THEN m[src.arr][i] ELSE m[dst.arr][i]])

\* mutant: the element is put in front, append([]Testimonial{x}, s...)
GoAppendInFront(m, s, x) ==
    LET old == Elems(m, s)
    IN [mem |-> Append(m, [i \in 1..(s.len + 1) |->
                              IF i = 1 THEN x ELSE old[i - 1]]),
        slice |-> [arr |-> Len(m) + 1, len |-> s.len + 1, cap |-> s.len + 1]]

\* append(s, x): in place while capacity lasts, else into a fresh array of
\* doubled capacity
GoAppend(m, s, x) ==
    IF s.len < s.cap
    THEN [mem |-> WithArray(m, s.arr, WithElem(m[s.arr], s.len + 1, x)),
          slice |-> [s EXCEPT !.len = s.len + 1]]
    ELSE LET newcap == IF s.cap = 0 THEN 1 ELSE 2 * s.cap
             old == Elems(m, s)
         IN [mem |-> Append(m, [i \in 1..newcap |->
                                   IF i <= s.len THEN old[i]
                                   ELSE IF i = s.len + 1 THEN x
                                   ELSE ZeroTestimonial]),
             slice |-> [arr |-> Len(m) + 1, len |-> s.len + 1, cap |-> newcap]]

(***************************************************************************)
(* sync.Merge                                                              *)
(***************************************************************************)
\* mutant: the existing records are not indexed
IndexExistingNone(m, ex) == {}

\* seen, after the loop over existing
IndexExisting(m, ex) ==
    {dedupeKey(Elems(m, ex)[i].name, Elems(m, ex)[i].company) : i \in 1..ex.len}

\* mutant: result is made but existing is never copied into it
CopyExistingSkipped(m, ex) == Make(m, ex.len)

\* mutant: the arguments of copy are swapped, copy(existing, result)
CopyExistingSwapped(m, ex) ==
    LET made == Make(m, ex.len)
    IN [mem |-> Copy(made.mem, ex, made.slice), slice |-> made.slice]

\* result := make(len(existing)); copy(result, existing)
CopyExisting(m, ex) ==
    LET made == Make(m, ex.len)
    IN [mem |-> Copy(made.mem, made.slice, ex), slice |-> made.slice]

\* the Testimonial literal Merge appends: LinkedInURL is left at its zero value
ToTestimonial(rec) ==
    [name |-> rec.name, role |-> rec.role, company |-> rec.company,
     quote |-> rec.quote, avatar |-> rec.avatar, linkedin |-> ""]

\* mutant: an appended key is not marked seen
MergeStepNoMark(st, rec) ==
    LET key == dedupeKey(rec.name, rec.company)
    IN IF key \in st.seen THEN st
       ELSE LET app == GoAppend(st.mem, st.result, ToTestimonial(rec))
            IN [mem |-> app.mem, result |-> app.slice, seen |-> st.seen,
                newCount |-> st.newCount + 1]

\* mutant: skipped duplicates are counted as new
MergeStepCountsSkipped(st, rec) ==
    LET key == dedupeKey(rec.name, rec.company)
    IN IF key \in st.seen THEN [st EXCEPT !.newCount = st.newCount + 1]
       ELSE LET app == GoAppend(st.mem, st.result, ToTestimonial(rec))
            IN [mem |-> app.mem, result |-> app.slice,
                seen |-> st.seen \cup {key}, newCount |-> st.newCount + 1]

\* one iteration of the loop over scraped
MergeStep(st, rec) ==
    LET key == dedupeKey(rec.name, rec.company)
    IN IF key \in st.seen THEN st
       ELSE LET app == GoAppend(st.mem, st.result, ToTestimonial(rec))
            IN [mem |-> app.mem, result |-> app.slice,
                seen |-> st.seen \cup {key}, newCount |-> st.newCount + 1]

\* mutant: the batch is walked from its last element to its first
RECURSIVE MergeLoopBackward(_, _, _)
MergeLoopBackward(st, sc, i) ==
    IF i > sc.len THEN st
    ELSE MergeLoopBackward(MergeStep(st, st.mem[sc.arr][sc.len - i + 1]), sc, i + 1)

\* for _, rec := range scraped, from element i on; the range expression is
\* evaluated once, the elements are read as the loop reaches them
RECURSIVE MergeLoop(_, _, _)
MergeLoop(st, sc, i) ==
    IF i > sc.len THEN st
    ELSE MergeLoop(MergeStep(st, st.mem[sc.arr][i]), sc, i + 1)

\* a Go value of type int, the type of Merge's second result
IntValue(n) == [type |-> "int", val |-> n]

\* a Go value of type []int, the type of the command's newIndices
IntSliceValue(s) == [type |-> "[]int", val |-> s]

\* Merge returns result and newCount, the number of records it appended
Merge(m, ex, sc) ==
    LET seen0 == IndexExisting(m, ex)
        res0 == CopyExisting(m, ex)
        fin == MergeLoop([mem |-> res0.mem, result |-> res0.slice,
                          seen |-> seen0, newCount |-> 0], sc, 1)
    IN [mem |-> fin.mem, result |-> fin.result, newCount |-> fin.newCount]

(***************************************************************************)
(* The Contentful entry and its JSON                                       *)
(***************************************************************************)
NoResult == [testimonials |-> NilSlice, entryID |-> "", version |-> 0, rawFields |-> <<>>]

NoEntry == [id |-> "", version |-> 0, published |-> 0, fields |-> <<>>]

\* no build log entry in the space
NoBuildLog == [id |-> "", version |-> 0, published |-> 0, entries |-> <<>>]

\* Step 5 not reached
LogRunOff == [entryID |-> "", version |-> 0, fetched |-> <<>>, all |-> <<>>,
              newVersion |-> 0]

\* no second run of the command
PeerOff == [pc |-> "off", version |-> 0, newVersion |-> 0, content |-> <<>>,
            sent |-> <<>>]

\* the scrape command is not running (SpecKey, SpecMerge)
CommandOff ==
    /\ store = NoEntry /\ pc = "off"
    /\ forceFlag = FALSE /\ translateFlag = FALSE
    /\ result = NoResult /\ newIndices = <<>> /\ upPos = 0
    /\ entryID = "" /\ newVersion = 0 /\ err = "" /\ sent = <<>>
    /\ runs = 0 /\ peer = PeerOff
    /\ buildLog = NoBuildLog /\ logRun = LogRunOff

\* the json tags of Testimonial; a key is a sequence of characters
TagName == <<110, 97, 109, 101>>  \* "name"
TagRole == <<114, 111, 108, 101>>  \* "role"
TagCompany == <<99, 111, 109, 112, 97, 110, 121>>  \* "company"
TagQuote == <<113, 117, 111, 116, 101>>  \* "quote"
TagAvatarUrl == <<97, 118, 97, 116, 97, 114, 85, 114, 108>>  \* "avatarUrl"
TagLinkedInUrl == <<108, 105, 110, 107, 101, 100, 73, 110, 85, 114, 108>>  \* "linkedInUrl"

\* json.Marshal of a Testimonial: a JSON object maps its keys to their
\* values; avatarUrl and linkedInUrl are omitempty
ToJSON(t) ==
    LET keys == {TagName, TagRole, TagCompany, TagQuote}
                \cup (IF t.avatar # "" THEN {TagAvatarUrl} ELSE {})
                \cup (IF t.linkedin # "" THEN {TagLinkedInUrl} ELSE {})
    IN [k \in keys |->
          CASE k = TagName -> t.name
            [] k = TagRole -> t.role
            [] k = TagCompany -> t.company
            [] k = TagQuote -> t.quote
            [] k = TagAvatarUrl -> t.avatar
            [] k = TagLinkedInUrl -> t.linkedin]

\* unicode.SimpleFold: the characters that equal the ASCII character t
\* under simple case folding
FoldOrbit(t) ==
    {t}
    \cup (IF 65 <= t /\ t <= 90 THEN {t + 32} ELSE {})
    \cup (IF 97 <= t /\ t <= 122 THEN {t - 32} ELSE {})
    \cup (IF t \in {75, 107} THEN {8490} ELSE {})  \* U+212A KELVIN SIGN
    \cup (IF t \in {83, 115} THEN {383} ELSE {})   \* U+017F LONG S

\* bytes.EqualFold of a key and a tag (the tags are ASCII)
EqualFold(k, tag) ==
    /\ Len(k) = Len(tag)
    /\ \A i \in 1..Len(k) : k[i] = tag[i] \/ k[i] \in FoldOrbit(tag[i])

JSONTags == {TagName, TagRole, TagCompany, TagQuote, TagAvatarUrl, TagLinkedInUrl}

\* the field json.Unmarshal fills for the key k: the one tagged k, else the
\* one whose tag equals k but for the case of letters, else none
FieldOfKey(k) ==
    IF k \in JSONTags THEN k
    ELSE IF \E tag \in JSONTags : EqualFold(k, tag)
         THEN CHOOSE tag \in JSONTags : EqualFold(k, tag)
         ELSE <<>>

\* the keys of o that json.Unmarshal decodes into the field tagged tag
KeysOfField(o, tag) == {k \in DOMAIN o : FieldOfKey(k) = tag}

\* a sorts behind b, for two keys of one field (they have the same number
\* of characters): where they first differ a has the greater character
SortsBehind(a, b) ==
    LET d == CHOOSE i \in 1..Len(a) :
                 a[i] # b[i] /\ \A j \in 1..(i - 1) : a[j] = b[j]
    IN a[d] > b[d]

\* GetTestimonials marshals the decoded content, which writes the keys of
\* an object in sorted order, and unmarshals that into []Testimonial: of
\* several keys for one field the one sorted last is decoded last and stays
FieldValue(o, tag, zero) ==
    IF DOMAIN o \subseteq JSONTags
    THEN \* every key is a tag and names its own field
         IF tag \in DOMAIN o THEN o[tag] ELSE zero
    ELSE LET ks == KeysOfField(o, tag)
         IN IF ks = {} THEN zero
            ELSE o[CHOOSE k \in ks : \A l \in ks \ {k} : SortsBehind(k, l)]

\* json.Unmarshal into a Testimonial: a field no key names keeps the zero
\* value
FromJSON(o) ==
    [name |-> FieldValue(o, TagName, <<>>),
     role |-> FieldValue(o, TagRole, ""),
     company |-> FieldValue(o, TagCompany, <<>>),
     quote |-> FieldValue(o, TagQuote, ""),
     avatar |-> FieldValue(o, TagAvatarUrl, ""),
     linkedin |-> FieldValue(o, TagLinkedInUrl, "")]

MarshalAll(ts) == [i \in 1..Len(ts) |-> ToJSON(ts[i])]
UnmarshalAll(os) == [i \in 1..Len(os) |-> FromJSON(os[i])]

\* the fields of an entry found in the space that are not the collection:
\* the sectionId the query selects on, a title an editor has set, and a
\* field the command knows nothing of
OtherFields == [sectionId |-> "testimonials", title |-> "Kind words", order |-> "3"]

WithContent(fields, content) ==
    [k \in DOMAIN fields \cup {"content"} |->
        IF k = "content" THEN content ELSE fields[k]]

\* the fields CreateTestimonials posts
CreateBody(ts) ==
    [sectionId |-> "testimonials", title |-> "Testimonials", content |-> MarshalAll(ts)]

\* mutant: the update sends the fields of a create
UpdateBodyAsCreate(rawFields, ts) == CreateBody(ts)

\* the fields UpdateTestimonials puts: RawFields with content replaced
UpdateBody(rawFields, ts) == WithContent(rawFields, MarshalAll(ts))

\* gemini.Translate of a quote
Translated(q) ==
    CASE q = "quote1" -> "en:quote1"
      [] q = "quote2" -> "en:quote2"
      [] OTHER -> q

\* the CDN URL UploadAvatar returns for an image
CdnURL(img) == IF img = "img" THEN "cdn:img" ELSE "cdn:other"

(***************************************************************************)
(* SpecKey: dedupeKey applied to every (name, company) of the universe     *)
(***************************************************************************)
KeyInit ==
    /\ kname \in NameInputs
    /\ kcompany \in CompanyInputs
    /\ kkey = <<>>
    /\ kpc = "input"
    /\ mem = <<>>
    /\ existing = NilSlice /\ scraped = NilSlice
    /\ merged = NilSlice /\ newCount = 0
    /\ remerged = NilSlice /\ reCount = 0
    /\ inE = <<>> /\ inI = <<>>
    /\ mpc = "off"
    /\ CommandOff

KeyCompute ==
    /\ kpc = "input"
    /\ kkey' = dedupeKey(kname, kcompany)
    /\ kpc' = "keyed"
    /\ UNCHANGED <<kname, kcompany, mvars, ovars>>

KeyNext == KeyCompute

SpecKey == KeyInit /\ [][KeyNext]_vars

(***************************************************************************)
(* SpecMerge: Merge called on every existing collection and incoming batch *)
(* of the universe, then called again with the same batch on its result    *)
(***************************************************************************)
MaxExisting == 2
MaxIncoming == 2

MergeInit ==
    /\ inE \in SeqUpTo(StoredInputs, MaxExisting)
    /\ inI \in SeqUpTo(IncomingInputs, MaxIncoming)
    /\ mem = <<inE, inI>>
    /\ existing = [arr |-> 1, len |-> Len(inE), cap |-> Len(inE)]
    /\ scraped = [arr |-> 2, len |-> Len(inI), cap |-> Len(inI)]
    /\ merged = NilSlice /\ newCount = 0
    /\ remerged = NilSlice /\ reCount = 0
    /\ mpc = "input"
    /\ kname = <<>> /\ kcompany = <<>> /\ kkey = <<>> /\ kpc = "off"
    /\ CommandOff

MergeCall ==
    /\ mpc = "input"
    /\ LET out == Merge(mem, existing, scraped)
       IN /\ mem' = out.mem
          /\ merged' = out.result
          /\ newCount' = out.newCount
    /\ mpc' = "merged"
    /\ UNCHANGED <<existing, scraped, remerged, reCount, inE, inI, kvars, ovars>>

MergeAgain ==
    /\ mpc = "merged"
    /\ LET out == Merge(mem, merged, scraped)
       IN /\ mem' = out.mem
          /\ remerged' = out.result
          /\ reCount' = out.newCount
    /\ mpc' = "remerged"
    /\ UNCHANGED <<existing, scraped, merged, newCount, inE, inI, kvars, ovars>>

MergeNext == MergeCall \/ MergeAgain

SpecMerge == MergeInit /\ [][MergeNext]_vars

(***************************************************************************)
(* Spec: one run of the scrape command against the testimonials entry,     *)
(* from every entry of the universe (what earlier runs or an editor left   *)
(* there).  The run is a process of its own: its heap starts empty.        *)
(***************************************************************************)
MaxStored == 2
MaxBatch == 2

\* the records the scrape command meets: PersonA in another spelling than
\* the stored one and PersonB, both with an avatar, and PersonC without one
CommandProfiles ==
    { <<PersonA2, 2>>, <<PersonB, 2>>, <<PersonC, 1>> }

ScrapedInputs == {RecOf(pv[1], pv[2]) : pv \in CommandProfiles}
StoredProfiles == { <<PersonA, 1>>, <<PersonA2, 2>> }
EntryInputs == {StoredOf(pv[1], pv[2]) : pv \in StoredProfiles}

\* PersonA's record as an editor typed it into the entry: the keys of name
\* and company are spelled with capitals, the key of the profile link with
\* the KELVIN SIGN (U+212A) for its k
EditedObject ==
    (<<78, 97, 109, 101>> :> PersonA[1])                        \* "Name"
    @@ (TagRole :> "role1")
    @@ (<<67, 79, 77, 80, 65, 78, 89>> :> PersonA[2])           \* "COMPANY"
    @@ (TagQuote :> "quote1")
    @@ (<<108, 105, 110, 8490, 101, 100, 73, 110, 85, 114, 108>> :> "li")

StoreInputs ==
    {NoEntry}
    \cup {[id |-> "entry1", version |-> 1, published |-> 0, fields |-> OtherFields]}
    \cup {[id |-> "entry1", version |-> 1, published |-> 0,
           fields |-> WithContent(OtherFields, <<EditedObject>>)]}
    \cup {[id |-> "entry1", version |-> 1, published |-> 0,
           fields |-> WithContent(OtherFields, MarshalAll(c))] :
             c \in SeqUpTo(EntryInputs, MaxStored)}

ProcessStart ==
    /\ pc = "start"
    /\ mem = <<>> /\ scraped = NilSlice /\ merged = NilSlice
    /\ inE = <<>> /\ inI = <<>>
    /\ forceFlag = FALSE /\ translateFlag = FALSE
    /\ result = NoResult /\ newIndices = <<>> /\ upPos = 0
    /\ entryID = "" /\ newVersion = 0 /\ err = "" /\ sent = <<>>

Init ==
    /\ store \in StoreInputs
    /\ ProcessStart
    /\ existing = NilSlice /\ newCount = 0 /\ remerged = NilSlice /\ reCount = 0
    /\ mpc = "off"
    /\ kname = <<>> /\ kcompany = <<>> /\ kkey = <<>> /\ kpc = "off"
    /\ runs = 1 /\ peer = PeerOff
    /\ buildLog = NoBuildLog /\ logRun = LogRunOff

\* return from RunE
Return(e) ==
    /\ pc' = "done"
    /\ err' = e

\* linkedin.Scrape fails
ScrapeFails ==
    /\ pc = "start"
    /\ Return("scrape")
    /\ UNCHANGED <<store, mem, scraped, merged, inE, inI, forceFlag, translateFlag,
                   result, newIndices, upPos, entryID, newVersion, sent, hvars>>

\* linkedin.Scrape returns one of batches; --force and --translate are as
\* the command line has them
ScrapeFrom(batches, forceFlags, translateFlags) ==
    /\ pc = "start"
    /\ \E batch \in batches, f \in forceFlags, t \in translateFlags,
          geminiKey \in BOOLEAN :
          /\ forceFlag' = f
          /\ translateFlag' = t
          /\ mem' = Append(mem, batch)
          /\ scraped' = [arr |-> Len(mem) + 1, len |-> Len(batch), cap |-> Len(batch)]
          /\ IF Len(batch) = 0 THEN Return("")
             ELSE IF t /\ ~geminiKey THEN Return("gemini key")
             ELSE /\ pc' = IF t THEN "translate" ELSE "fetch"
                  /\ err' = ""
    /\ UNCHANGED <<store, merged, inE, inI, result, newIndices, upPos, entryID,
                   newVersion, sent, hvars>>

Scrape == ScrapeFrom(SeqUpTo(ScrapedInputs, MaxBatch), BOOLEAN, BOOLEAN)

\* scraped[i].Quote = translated, for the records whose translation succeeds
TranslateQuotes(m, sc, ok) ==
    WithArray(m, sc.arr,
        [i \in 1..Len(m[sc.arr]) |->
            IF i \in ok THEN [m[sc.arr][i] EXCEPT !.quote = Translated(m[sc.arr][i].quote)]
            ELSE m[sc.arr][i]])

\* Step 1.5: the translation loop; every call of gemini.Translate succeeds
\* or fails on its own, ok are the records it succeeds on
Translate ==
    /\ pc = "translate"
    /\ \E ok \in SUBSET (1..scraped.len) :
          mem' = TranslateQuotes(mem, scraped, ok)
    /\ pc' = "fetch"
    /\ UNCHANGED <<store, scraped, merged, inE, inI, forceFlag, translateFlag, result,
                   newIndices, upPos, entryID, newVersion, err, sent, hvars>>

\* GetTestimonials: the request fails, or the answer is not 200 or does not decode
FetchFails ==
    /\ pc = "fetch"
    /\ Return("contentful fetch")
    /\ UNCHANGED <<store, mem, scraped, merged, inE, inI, forceFlag, translateFlag,
                   result, newIndices, upPos, entryID, newVersion, sent, hvars>>

\* GetTestimonials: no siteSection entry with sectionId testimonials
FetchNoEntry ==
    /\ pc = "fetch"
    /\ store.id = ""
    /\ result' = NoResult
    /\ pc' = "merge"
    /\ UNCHANGED <<store, mem, scraped, merged, inE, inI, forceFlag, translateFlag,
                   newIndices, upPos, entryID, newVersion, err, sent, hvars>>

\* GetTestimonials: the entry has no content field; the result comes with an
\* error and RunE returns on it
FetchNoContent ==
    /\ pc = "fetch"
    /\ store.id # ""
    /\ "content" \notin DOMAIN store.fields
    /\ result' = [testimonials |-> NilSlice, entryID |-> store.id,
                  version |-> store.version, rawFields |-> store.fields]
    /\ Return("contentful fetch")
    /\ UNCHANGED <<store, mem, scraped, merged, inE, inI, forceFlag, translateFlag,
                   newIndices, upPos, entryID, newVersion, sent, hvars>>

\* GetTestimonials: the entry and its collection
FetchEntry ==
    /\ pc = "fetch"
    /\ store.id # ""
    /\ "content" \in DOMAIN store.fields
    /\ LET ts == UnmarshalAll(store.fields["content"])
       IN /\ mem' = Append(mem, ts)
          /\ result' = [testimonials |-> [arr |-> Len(mem) + 1, len |-> Len(ts),
                                          cap |-> Len(ts)],
                        entryID |-> store.id, version |-> store.version,
                        rawFields |-> store.fields]
    /\ pc' = "merge"
    /\ UNCHANGED <<store, scraped, merged, inE, inI, forceFlag, translateFlag,
                   newIndices, upPos, entryID, newVersion, err, sent, hvars>>

\* the Testimonial literal of the force branch
ToTestimonialForce(rec) ==
    [name |-> rec.name, role |-> rec.role, company |-> rec.company,
     quote |-> rec.quote, avatar |-> rec.avatar, linkedin |-> rec.linkedin]

\* one iteration of the force loop, on scraped[i] (i counted from 0)
ForceStep(st, i, rec) ==
    LET app == GoAppend(st.mem, st.merged, ToTestimonialForce(rec))
    IN [mem |-> app.mem, merged |-> app.slice,
        newIndices |-> Append(st.newIndices, i)]

\* for i, rec := range scraped, from element i on
RECURSIVE ForceLoop(_, _, _)
ForceLoop(st, sc, i) ==
    IF i >= sc.len THEN st
    ELSE ForceLoop(ForceStep(st, i, st.mem[sc.arr][i + 1]), sc, i + 1)

\* Step 3 with --force: merged and newIndices start nil
ForceReplaceAll(m, sc) ==
    ForceLoop([mem |-> m, merged |-> NilSlice, newIndices |-> <<>>], sc, 0)

\* The positions in Merge's result of the records it appended: result holds
\* the n existing records before the loop and every append is counted, so
\* the count appended records sit at n .. n + count - 1. Merge returns only
\* the count; the command declares newIndices as []int and walks it as these
\* positions.
NewlyAddedIndices(n, count) == [k \in 1..count |-> n + k - 1]

\* mutant: the force branch appends to the fetched collection
ForceReplaceKeepsExisting ==
    /\ pc = "merge"
    /\ forceFlag
    /\ LET out == ForceLoop([mem |-> mem, merged |-> result.testimonials,
                             newIndices |-> <<>>], scraped, 0)
       IN /\ mem' = out.mem
          /\ merged' = out.merged
          /\ newIndices' = out.newIndices
    /\ inE' = Elems(mem, result.testimonials)
    /\ inI' = Elems(mem, scraped)
    /\ upPos' = 1
    /\ pc' = "upload"
    /\ UNCHANGED <<store, scraped, forceFlag, translateFlag, result, entryID,
                   newVersion, err, sent, hvars>>

\* Step 3 with --force
ForceReplace ==
    /\ pc = "merge"
    /\ forceFlag
    /\ LET out == ForceReplaceAll(mem, scraped)
       IN /\ mem' = out.mem
          /\ merged' = out.merged
          /\ newIndices' = out.newIndices
    /\ inE' = Elems(mem, result.testimonials)
    /\ inI' = Elems(mem, scraped)
    /\ upPos' = 1
    /\ pc' = "upload"
    /\ UNCHANGED <<store, scraped, forceFlag, translateFlag, result, entryID,
                   newVersion, err, sent, hvars>>

\* (variant) the run goes on to upload and persist when nothing is new
MergeExistingAlwaysPersists ==
    /\ pc = "merge"
    /\ ~forceFlag
    /\ LET out == Merge(mem, result.testimonials, scraped)
           idx == NewlyAddedIndices(result.testimonials.len, out.newCount)
       IN /\ mem' = out.mem
          /\ merged' = out.result
          /\ newIndices' = idx
          /\ pc' = "upload" /\ err' = ""
    /\ inE' = Elems(mem, result.testimonials)
    /\ inI' = Elems(mem, scraped)
    /\ upPos' = 1
    /\ UNCHANGED <<store, scraped, forceFlag, translateFlag, result, entryID,
                   newVersion, sent, hvars>>

\* Step 3 without --force: sync.Merge, and the return when nothing is new
MergeExisting ==
    /\ pc = "merge"
    /\ ~forceFlag
    /\ LET out == Merge(mem, result.testimonials, scraped)
           idx == NewlyAddedIndices(result.testimonials.len, out.newCount)
       IN /\ mem' = out.mem
          /\ merged' = out.result
          /\ newIndices' = idx
          /\ IF Len(idx) = 0 THEN Return("")
             ELSE pc' = "upload" /\ err' = ""
    /\ inE' = Elems(mem, result.testimonials)
    /\ inI' = Elems(mem, scraped)
    /\ upPos' = 1
    /\ UNCHANGED <<store, scraped, forceFlag, translateFlag, result, entryID,
                   newVersion, sent, hvars>>

\* t := &merged[idx]; t.AvatarURL = url
SetAvatar(m, sl, idx, url) ==
    WithArray(m, sl.arr,
        WithElem(m[sl.arr], idx + 1, [m[sl.arr][idx + 1] EXCEPT !.avatar = url]))

Uploading == pc = "upload" /\ upPos <= Len(newIndices)

\* mutant: for idx := range newIndices, the position instead of the value
UploadTargetIsPosition == upPos - 1

\* for _, idx := range newIndices: the index the loop is at
UploadTarget == newIndices[upPos]

\* Step 3.5, a record without avatar: continue
UploadSkip ==
    /\ Uploading
    /\ mem[merged.arr][UploadTarget + 1].avatar = ""
    /\ upPos' = upPos + 1
    /\ UNCHANGED <<store, mem, scraped, merged, inE, inI, forceFlag, translateFlag,
                   result, newIndices, pc, entryID, newVersion, err, sent, hvars>>

\* Step 3.5, UploadAvatar succeeds
UploadOk ==
    /\ Uploading
    /\ LET idx == UploadTarget
           url == mem[merged.arr][idx + 1].avatar
       IN /\ url # ""
          /\ mem' = SetAvatar(mem, merged, idx, CdnURL(url))
    /\ upPos' = upPos + 1
    /\ UNCHANGED <<store, scraped, merged, inE, inI, forceFlag, translateFlag,
                   result, newIndices, pc, entryID, newVersion, err, sent, hvars>>

\* mutant: a failed upload ends the run
UploadFailsAborts ==
    /\ Uploading
    /\ mem[merged.arr][UploadTarget + 1].avatar # ""
    /\ Return("avatar upload")
    /\ UNCHANGED <<store, mem, scraped, merged, inE, inI, forceFlag, translateFlag,
                   result, newIndices, upPos, entryID, newVersion, sent, hvars>>

\* mutant: a failed upload leaves the scraped avatar in place
UploadFailsKeepsAvatar ==
    /\ Uploading
    /\ mem[merged.arr][UploadTarget + 1].avatar # ""
    /\ upPos' = upPos + 1
    /\ UNCHANGED <<store, mem, scraped, merged, inE, inI, forceFlag, translateFlag,
                   result, newIndices, pc, entryID, newVersion, err, sent, hvars>>

\* Step 3.5, UploadAvatar fails: the avatar is dropped
UploadFails ==
    /\ Uploading
    /\ LET idx == UploadTarget
       IN /\ mem[merged.arr][idx + 1].avatar # ""
          /\ mem' = SetAvatar(mem, merged, idx, "")
    /\ upPos' = upPos + 1
    /\ UNCHANGED <<store, scraped, merged, inE, inI, forceFlag, translateFlag,
                   result, newIndices, pc, entryID, newVersion, err, sent, hvars>>

Persisting == pc = "upload" /\ upPos > Len(newIndices)

\* Contentful creates the entry the POST of CreateTestimonials asks for
CreateTaken ==
    store' = [id |-> "entry1", version |-> 1, published |-> 0,
              fields |-> CreateBody(Elems(mem, merged))]

\* Step 4, no entry was fetched: CreateTestimonials succeeds
CreateOk ==
    /\ Persisting
    /\ result.entryID = ""
    /\ CreateTaken
    /\ sent' = MarshalAll(Elems(mem, merged))
    /\ entryID' = "entry1"
    /\ newVersion' = 1
    /\ pc' = "publish"
    /\ UNCHANGED <<mem, scraped, merged, inE, inI, forceFlag, translateFlag, result,
                   newIndices, upPos, err, hvars>>

\* CreateTestimonials returns an error: the request fails or is refused and
\* nothing is created, or the entry is created and the answer is lost or
\* does not decode
CreateFails ==
    /\ Persisting
    /\ result.entryID = ""
    /\ (UNCHANGED store \/ CreateTaken)
    /\ sent' = MarshalAll(Elems(mem, merged))
    /\ Return("contentful create")
    /\ UNCHANGED <<mem, scraped, merged, inE, inI, forceFlag, translateFlag,
                   result, newIndices, upPos, entryID, newVersion, hvars>>

\* mutant: the update sends the version the entry has at that moment
UpdateVersionHeaderLatest(res) == store.version

\* the X-Contentful-Version header of the update
UpdateVersionHeader(res) == res.version

\* Contentful takes the PUT of UpdateTestimonials: X-Contentful-Version is
\* the entry's version
UpdateTaken ==
    /\ store.id = result.entryID
    /\ store.version = UpdateVersionHeader(result)
    /\ store' = [store EXCEPT !.version = store.version + 1,
                              !.fields = UpdateBody(result.rawFields, Elems(mem, merged))]

\* Step 4, an entry was fetched: UpdateTestimonials succeeds
UpdateOk ==
    /\ Persisting
    /\ result.entryID # ""
    /\ UpdateTaken
    /\ sent' = MarshalAll(Elems(mem, merged))
    /\ entryID' = result.entryID
    /\ newVersion' = store.version + 1
    /\ pc' = "publish"
    /\ UNCHANGED <<mem, scraped, merged, inE, inI, forceFlag, translateFlag, result,
                   newIndices, upPos, err, hvars>>

\* UpdateTestimonials returns an error: the request fails or is refused and
\* the entry stays as it is, or the update is taken and the answer is lost
\* or does not decode
UpdateFails ==
    /\ Persisting
    /\ result.entryID # ""
    /\ (UNCHANGED store \/ UpdateTaken)
    /\ sent' = MarshalAll(Elems(mem, merged))
    /\ entryID' = result.entryID
    /\ Return("contentful update")
    /\ UNCHANGED <<mem, scraped, merged, inE, inI, forceFlag, translateFlag,
                   result, newIndices, upPos, newVersion, hvars>>

\* PublishEntry(entryID, newVersion) succeeds: publishing bumps the version;
\* the run goes on to Step 5
\* (variant) the version handed to PublishEntry is the fetched one
PublishVersionFetched == result.version

\* the version handed to PublishEntry
PublishVersion == newVersion

\* Contentful publishes the entry: the version handed over is the entry's
PublishTaken ==
    /\ store.id = entryID
    /\ store.version = PublishVersion
    /\ store' = [store EXCEPT !.published = PublishVersion,
                              !.version = PublishVersion + 1]

PublishOk ==
    /\ pc = "publish"
    /\ PublishTaken
    /\ pc' = "buildlog"
    /\ UNCHANGED <<mem, scraped, merged, inE, inI, forceFlag, translateFlag, result,
                   newIndices, upPos, entryID, newVersion, err, sent, hvars>>

\* PublishEntry returns an error: the entry is not published, or it is and
\* the answer is lost
PublishFails ==
    /\ pc = "publish"
    /\ (UNCHANGED store \/ PublishTaken)
    /\ Return("contentful publish")
    /\ UNCHANGED <<mem, scraped, merged, inE, inI, forceFlag, translateFlag,
                   result, newIndices, upPos, entryID, newVersion, sent, hvars>>

(***************************************************************************)
(* Step 5: the build log                                                   *)
(***************************************************************************)
ServiceName == "linkedin-contentful-sync"

\* triggeredBy: "github-actions" when GITHUB_ACTIONS is "true"
TriggeredBy == {"local", "github-actions"}

\* logEntry: the entry of this run; the run number stands for time.Now()
LogEntry(triggeredBy) ==
    [service |-> ServiceName, timestamp |-> runs, triggeredBy |-> triggeredBy,
     forceUpdate |-> forceFlag, translationUsed |-> translateFlag,
     newAdded |-> Len(newIndices), totalAfterSync |-> merged.len,
     status |-> "success"]

\* the loop over buildLogResult.Entries: the entries of this service, in order
OwnEntries(entries) == SelectSeq(entries, LAMBDA e : e.service = ServiceName)

\* the loop over buildLogResult.Entries: the entries of other services, in order
OtherEntries(entries) == SelectSeq(entries, LAMBDA e : e.service # ServiceName)

\* mutant: the last 3 own entries are kept
TrimOwnKeepsThree(own) ==
    IF Len(own) >= 3 THEN SubSeq(own, Len(own) - 2, Len(own)) ELSE own

\* if len(ownEntries) >= 3 { ownEntries = ownEntries[len(ownEntries)-2:] }
TrimOwn(own) ==
    IF Len(own) >= 3 THEN SubSeq(own, Len(own) - 1, Len(own)) ELSE own

\* allLogEntries := append(otherEntries, append(ownEntries, logEntry)...);
\* ownEntries and otherEntries have backing arrays of their own, so the
\* appends show nowhere else
AllLogEntries(entries, logEntry) ==
    OtherEntries(entries) \o Append(TrimOwn(OwnEntries(entries)), logEntry)

\* what Step 5 leaves alone
LogFrame ==
    UNCHANGED <<store, mem, scraped, merged, inE, inI, forceFlag, translateFlag,
                result, newIndices, upPos, entryID, newVersion, sent,
                runs, peer, kvars, existing, newCount, remerged, reCount, mpc>>

\* GetBuildLog fails: a warning, and the run ends without error
BuildLogFetchFails ==
    /\ pc = "buildlog"
    /\ Return("")
    /\ UNCHANGED <<buildLog, logRun>>
    /\ LogFrame

\* GetBuildLog returns the entry; own and other entries are separated, the
\* own ones trimmed, and allLogEntries is built
BuildLogFetch ==
    /\ pc = "buildlog"
    /\ \E triggeredBy \in TriggeredBy :
          logRun' = [entryID |-> buildLog.id, version |-> buildLog.version,
                     fetched |-> buildLog.entries,
                     all |-> AllLogEntries(buildLog.entries, LogEntry(triggeredBy)),
                     newVersion |-> 0]
    /\ pc' = "buildlog write"
    /\ UNCHANGED <<buildLog, err>>
    /\ LogFrame

\* Contentful creates the build log entry
BuildLogCreateTaken ==
    buildLog' = [id |-> "log1", version |-> 1, published |-> 0,
                 entries |-> logRun.all]

\* no build log entry was fetched: CreateBuildLog succeeds
BuildLogCreateOk ==
    /\ pc = "buildlog write"
    /\ logRun.entryID = ""
    /\ BuildLogCreateTaken
    /\ logRun' = [logRun EXCEPT !.entryID = "log1", !.newVersion = 1]
    /\ pc' = "buildlog publish"
    /\ UNCHANGED err
    /\ LogFrame

\* CreateBuildLog returns an error, a warning to the run: nothing is
\* created, or the entry is and the answer is lost
BuildLogCreateFails ==
    /\ pc = "buildlog write"
    /\ logRun.entryID = ""
    /\ (UNCHANGED buildLog \/ BuildLogCreateTaken)
    /\ Return("")
    /\ UNCHANGED logRun
    /\ LogFrame

\* Contentful takes the update of the build log entry
BuildLogUpdateTaken ==
    /\ buildLog.id = logRun.entryID
    /\ buildLog.version = logRun.version
    /\ buildLog' = [buildLog EXCEPT !.version = buildLog.version + 1,
                                    !.entries = logRun.all]

\* a build log entry was fetched: UpdateBuildLog succeeds
BuildLogUpdateOk ==
    /\ pc = "buildlog write"
    /\ logRun.entryID # ""
    /\ BuildLogUpdateTaken
    /\ logRun' = [logRun EXCEPT !.newVersion = buildLog.version + 1]
    /\ pc' = "buildlog publish"
    /\ UNCHANGED err
    /\ LogFrame

\* UpdateBuildLog returns an error, a warning to the run: the entry stays
\* as it is, or the update is taken and the answer is lost
BuildLogUpdateFails ==
    /\ pc = "buildlog write"
    /\ logRun.entryID # ""
    /\ (UNCHANGED buildLog \/ BuildLogUpdateTaken)
    /\ Return("")
    /\ UNCHANGED logRun
    /\ LogFrame

\* PublishEntry(buildLogEntryID, buildLogVersion) succeeds
BuildLogPublishTaken ==
    /\ buildLog.id = logRun.entryID
    /\ buildLog.version = logRun.newVersion
    /\ buildLog' = [buildLog EXCEPT !.published = logRun.newVersion,
                                    !.version = logRun.newVersion + 1]

BuildLogPublishOk ==
    /\ pc = "buildlog publish"
    /\ BuildLogPublishTaken
    /\ Return("")
    /\ UNCHANGED logRun
    /\ LogFrame

\* the publish of the build log returns an error, a warning to the run:
\* the entry is not published, or it is and the answer is lost
BuildLogPublishFails ==
    /\ pc = "buildlog publish"
    /\ (UNCHANGED buildLog \/ BuildLogPublishTaken)
    /\ Return("")
    /\ UNCHANGED logRun
    /\ LogFrame

\* the scrape command in a space that has no build log entry yet
Next ==
    \/ BuildLogFetchFails \/ BuildLogFetch
    \/ BuildLogCreateOk \/ BuildLogCreateFails
    \/ BuildLogPublishOk \/ BuildLogPublishFails
    \/ ScrapeFails \/ Scrape \/ Translate
    \/ FetchFails \/ FetchNoEntry \/ FetchNoContent \/ FetchEntry
    \/ ForceReplace \/ MergeExisting
    \/ UploadSkip \/ UploadOk \/ UploadFails
    \/ CreateOk \/ CreateFails \/ UpdateOk \/ UpdateFails
    \/ PublishOk \/ PublishFails

Spec == Init /\ [][Next]_vars

(***************************************************************************)
(* SpecRuns: the command is run again and again, without --force and       *)
(* without --translate, against an entry that starts without a collection; *)
(* each run is a new process and fetches what the runs before it left.     *)
(* The build log cannot be fetched, so Step 5 leaves it alone.             *)
(***************************************************************************)
MaxRuns == 3
MaxRunBatch == 2

RunStoreInputs ==
    {st \in StoreInputs :
        "content" \in DOMAIN st.fields => Len(st.fields["content"]) = 0}

RunsInit ==
    /\ store \in RunStoreInputs
    /\ ProcessStart
    /\ existing = NilSlice /\ newCount = 0 /\ remerged = NilSlice /\ reCount = 0
    /\ mpc = "off"
    /\ kname = <<>> /\ kcompany = <<>> /\ kkey = <<>> /\ kpc = "off"
    /\ runs = 1 /\ peer = PeerOff
    /\ buildLog = NoBuildLog /\ logRun = LogRunOff

ScrapeRun == ScrapeFrom(SeqUpTo(ScrapedInputs, MaxRunBatch), {FALSE}, {FALSE})

\* the command has returned and is started again
NextRun ==
    /\ pc = "done"
    /\ runs < MaxRuns
    /\ runs' = runs + 1
    /\ pc' = "start"
    /\ mem' = <<>> /\ scraped' = NilSlice /\ merged' = NilSlice
    /\ inE' = <<>> /\ inI' = <<>>
    /\ forceFlag' = FALSE /\ translateFlag' = FALSE
    /\ result' = NoResult /\ newIndices' = <<>> /\ upPos' = 0
    /\ entryID' = "" /\ newVersion' = 0 /\ err' = "" /\ sent' = <<>>
    /\ logRun' = LogRunOff
    /\ UNCHANGED <<store, peer, buildLog, kvars, existing, newCount, remerged,
                   reCount, mpc>>

RunsNext ==
    \/ ScrapeFails \/ ScrapeRun
    \/ FetchFails \/ FetchNoEntry \/ FetchNoContent \/ FetchEntry
    \/ MergeExisting
    \/ UploadSkip \/ UploadOk \/ UploadFails
    \/ CreateOk \/ CreateFails \/ UpdateOk \/ UpdateFails
    \/ PublishOk \/ PublishFails
    \/ BuildLogFetchFails
    \/ NextRun

SpecRuns == RunsInit /\ [][RunsNext]_vars

(***************************************************************************)
(* SpecPeer: a second run of the command works on the same entry while     *)
(* this one runs.  Of the second run only its requests to Contentful are   *)
(* kept: its GetTestimonials, its UpdateTestimonials with the version it   *)
(* fetched, its PublishEntry.  The entry exists and holds a collection, so *)
(* both runs persist by update.  The build log cannot be fetched.          *)
(***************************************************************************)
MaxPeerBatch == 1

PeerStoreInputs == {st \in StoreInputs : "content" \in DOMAIN st.fields}

PeerInit ==
    /\ store \in PeerStoreInputs
    /\ ProcessStart
    /\ existing = NilSlice /\ newCount = 0 /\ remerged = NilSlice /\ reCount = 0
    /\ mpc = "off"
    /\ kname = <<>> /\ kcompany = <<>> /\ kkey = <<>> /\ kpc = "off"
    /\ runs = 1 /\ peer = PeerOff
    /\ buildLog = NoBuildLog /\ logRun = LogRunOff

ScrapePeer == ScrapeFrom(SeqUpTo(ScrapedInputs, MaxPeerBatch), BOOLEAN, {FALSE})

\* what the command leaves alone while the second run acts
PeerFrame ==
    UNCHANGED <<mem, scraped, merged, inE, inI, pc, forceFlag, translateFlag, result,
                newIndices, upPos, entryID, newVersion, err, sent, runs,
                buildLog, logRun,
                kvars, existing, newCount, remerged, reCount, mpc>>

\* the record the second run has scraped; it has no avatar to upload
PeerRecord == RecOf(PersonC, 1)

\* the second run's sync.Merge of the collection it fetched with its batch,
\* on a heap of its own
PeerMerge(content) ==
    LET fetched == UnmarshalAll(content)
        out == Merge(<<fetched, <<PeerRecord>> >>,
                     [arr |-> 1, len |-> Len(fetched), cap |-> Len(fetched)],
                     [arr |-> 2, len |-> 1, cap |-> 1])
    IN [merged |-> Elems(out.mem, out.result), newCount |-> out.newCount]

\* the second run's GetTestimonials and Merge: with nothing new it returns,
\* else it has the collection to send
PeerFetch ==
    /\ peer.pc = "off"
    /\ LET out == PeerMerge(store.fields["content"])
       IN peer' = [pc |-> IF out.newCount = 0 THEN "uptodate" ELSE "fetched",
                   version |-> store.version, newVersion |-> 0,
                   content |-> store.fields["content"],
                   sent |-> IF out.newCount = 0 THEN <<>>
                            ELSE MarshalAll(out.merged)]
    /\ UNCHANGED store
    /\ PeerFrame

\* Contentful takes the PUT of the second run's UpdateTestimonials
PeerUpdateTaken ==
    /\ store.version = UpdateVersionHeader(peer)
    /\ store' = [store EXCEPT !.version = store.version + 1,
                              !.fields = WithContent(store.fields, peer.sent)]

\* the second run's UpdateTestimonials succeeds
PeerUpdateOk ==
    /\ peer.pc = "fetched"
    /\ PeerUpdateTaken
    /\ peer' = [peer EXCEPT !.pc = "updated", !.newVersion = store.version + 1]
    /\ PeerFrame

\* the second run's UpdateTestimonials returns an error and the run ends:
\* the update is refused or fails ("failed"), or it is taken and the answer
\* is lost or does not decode ("lost")
PeerUpdateFails ==
    /\ peer.pc = "fetched"
    /\ \/ UNCHANGED store /\ peer' = [peer EXCEPT !.pc = "failed"]
       \/ PeerUpdateTaken /\ peer' = [peer EXCEPT !.pc = "lost"]
    /\ PeerFrame

\* Contentful publishes the entry for the second run
PeerPublishTaken ==
    /\ store.version = peer.newVersion
    /\ store' = [store EXCEPT !.published = peer.newVersion,
                              !.version = peer.newVersion + 1]

\* the second run's PublishEntry
PeerPublishOk ==
    /\ peer.pc = "updated"
    /\ PeerPublishTaken
    /\ peer' = [peer EXCEPT !.pc = "published"]
    /\ PeerFrame

\* the second run's PublishEntry returns an error and the run ends: the
\* entry is not published, or it is and the answer is lost
PeerPublishFails ==
    /\ peer.pc = "updated"
    /\ (UNCHANGED store \/ PeerPublishTaken)
    /\ peer' = [peer EXCEPT !.pc = "failed"]
    /\ PeerFrame

PeerNext ==
    \/ ScrapeFails \/ ScrapePeer
    \/ FetchFails \/ FetchEntry
    \/ ForceReplace \/ MergeExisting
    \/ UploadSkip \/ UploadOk \/ UploadFails
    \/ UpdateOk \/ UpdateFails
    \/ PublishOk \/ PublishFails
    \/ BuildLogFetchFails
    \/ PeerFetch \/ PeerUpdateOk \/ PeerUpdateFails
    \/ PeerPublishOk \/ PeerPublishFails

SpecPeer == PeerInit /\ [][PeerNext]_vars

(***************************************************************************)
(* Properties of dedupeKey and Merge                                       *)
(***************************************************************************)
KeyOf(t) == dedupeKey(t.name, t.company)

NoTwoShareKey(seq) ==
    \A i, j \in 1..Len(seq) : i # j => KeyOf(seq[i]) # KeyOf(seq[j])

MergeReturned == mpc \in {"merged", "remerged"}

MergedNow == Elems(mem, merged)

\* what Merge appended behind the copy of existing
Appended == SubSeq(MergedNow, Len(inE) + 1, Len(MergedNow))

\* trimming and lowercasing, stated without the code's helpers: the stretch
\* from the first to the last character that is not white space, each
\* character lowered
Normalized(s) ==
    LET idx == {i \in 1..Len(s) : s[i] \notin WhiteSpace}
    IN IF idx = {} THEN <<>>
       ELSE LET lo == CHOOSE i \in idx : \A j \in idx : i <= j
                hi == CHOOSE i \in idx : \A j \in idx : j <= i
            IN [i \in 1..(hi - lo + 1) |-> LowerChar(s[lo + i - 1])]

SameIdentity(n1, c1, n2, c2) ==
    Normalized(n1) = Normalized(n2) /\ Normalized(c1) = Normalized(c2)

\* C1 as stated: for all E and I, no two elements of Merge(E, I).merged
\* have the same dedup key.
C1_NoDuplicateKeys ==
    MergeReturned => NoTwoShareKey(MergedNow)

\* C1 amended: Merge never introduces a duplicate.  Two elements of merged
\* that share a dedup key both lie within the first len(E) positions, so
\* when the keys of E are unique the keys of merged are unique.
C1_NoDuplicateIntroduced ==
    MergeReturned =>
        /\ \A i, j \in 1..Len(MergedNow) :
              (i < j /\ KeyOf(MergedNow[i]) = KeyOf(MergedNow[j])) => j <= Len(inE)
        /\ NoTwoShareKey(inE) => NoTwoShareKey(MergedNow)

C1_Witness ==
    /\ mpc = "merged"
    /\ Len(inE) = 2 /\ NoTwoShareKey(inE)
    /\ newCount = 1 /\ Len(inI) = 2

\* C2: the first len(E) elements of merged are exactly E, same order, every
\* field unchanged; an incoming record with the key of an existing one
\* overwrites nothing.
C2_PrefixPreserved ==
    MergeReturned =>
        /\ Len(MergedNow) >= Len(inE)
        /\ SubSeq(MergedNow, 1, Len(inE)) = inE

C2_Witness ==
    /\ mpc = "merged"
    /\ \E i \in 1..Len(inE), j \in 1..Len(inI) :
          /\ KeyOf(inE[i]) = KeyOf(inI[j])
          /\ inE[i].quote # inI[j].quote
          /\ inE[i].name # inI[j].name
    /\ newCount >= 1

\* C3: merging the same batch again into the result of Merge(E, I) reports
\* nothing new and returns the same sequence.
C3_Idempotent ==
    mpc = "remerged" =>
        /\ reCount = 0
        /\ Elems(mem, remerged) = MergedNow

C3_Witness ==
    /\ mpc = "remerged"
    /\ newCount = 2
    /\ Len(inE) >= 1

\* C4: len(merged) = len(E) + the number Merge reports as newly added, for
\* the first call and for the call on its result.
C4_LengthInvariant ==
    /\ MergeReturned => Len(MergedNow) = Len(inE) + newCount
    /\ mpc = "remerged" => Len(Elems(mem, remerged)) = Len(MergedNow) + reCount

C4_Witness ==
    /\ mpc = "merged"
    /\ Len(inE) >= 1
    /\ newCount = 1 /\ Len(inI) = 2

\* the positions of the batch that open a key neither E nor an earlier
\* position of the batch holds
FirstOfNewKey ==
    {j \in 1..Len(inI) :
        /\ \A i \in 1..Len(inE) : KeyOf(inE[i]) # KeyOf(inI[j])
        /\ \A i \in 1..(j - 1) : KeyOf(inI[i]) # KeyOf(inI[j])}

NthOf(S, k) == CHOOSE j \in S : Cardinality({x \in S : x < j}) = k - 1

SameData(t, rec) ==
    /\ t.name = rec.name /\ t.company = rec.company
    /\ t.role = rec.role /\ t.quote = rec.quote /\ t.avatar = rec.avatar

\* C5: of the incoming records that share a key not in existing exactly the
\* first is appended, and the appended records keep their incoming order.
C5_FirstOfBatchWins ==
    MergeReturned =>
        /\ Len(Appended) = Cardinality(FirstOfNewKey)
        /\ \A k \in 1..Len(Appended) :
              SameData(Appended[k], inI[NthOf(FirstOfNewKey, k)])

C5_Witness ==
    /\ mpc = "merged"
    /\ Len(inI) = 2 /\ Len(inE) = 1
    /\ KeyOf(inI[1]) = KeyOf(inI[2])
    /\ inI[1] # inI[2] /\ inI[1].name # inI[2].name
    /\ newCount = 1

\* Merge on one existing record (n2, c2) and one incoming record (n1, c1)
ProbeMerge(n1, c1, n2, c2) ==
    Merge(<< <<[ZeroTestimonial EXCEPT !.name = n2, !.company = c2]>>,
             <<[ZeroTestimonial EXCEPT !.name = n1, !.company = c1]>> >>,
          [arr |-> 1, len |-> 1, cap |-> 1], [arr |-> 2, len |-> 1, cap |-> 1])

\* C6: dedupeKey yields a key for every input, and two (name, company)
\* pairs equal after trimming and lowercasing each field yield the same key;
\* Merge indexes existing and looks up incoming with it, so an incoming
\* record that differs from an existing one in case and blanks only is
\* not appended.
C6_KeyInsensitive ==
    kpc = "keyed" =>
        /\ Len(kkey) >= 1
        /\ \A n2 \in {n \in NameInputs : Normalized(n) = Normalized(kname)} :
              \A c2 \in {c \in CompanyInputs : Normalized(c) = Normalized(kcompany)} :
                  /\ dedupeKey(n2, c2) = kkey
                  /\ ProbeMerge(kname, kcompany, n2, c2).newCount = 0

C6_Witness ==
    /\ kpc = "keyed"
    /\ kname = <<8195, 8490>> /\ kcompany = <<8490>>
    /\ kkey = <<107, 124, 107>>

\* C7: two records have equal keys if and only if their trimmed, lowercased
\* names are equal and their trimmed, lowercased companies are equal.
C7_KeyIdentifiesPair ==
    kpc = "keyed" =>
        \A n2 \in NameInputs, c2 \in CompanyInputs :
            (dedupeKey(n2, c2) = kkey) <=> SameIdentity(kname, kcompany, n2, c2)

(***************************************************************************)
(* SpecLog: runs that reach Step 5, one after another, in a space whose    *)
(* build log holds entries of this service and of another one              *)
(***************************************************************************)
MaxLog == 3

OtherService == "portfolio-sync"

\* a build log as found: entry i was written by service svcs[i], the last
\* one at time 0
InitialLog(svcs) ==
    [i \in 1..Len(svcs) |->
        [service |-> svcs[i], timestamp |-> i - Len(svcs),
         triggeredBy |-> "github-actions", forceUpdate |-> FALSE,
         translationUsed |-> FALSE, newAdded |-> 0, totalAfterSync |-> 0,
         status |-> "success"]]

LogInputs ==
    {NoBuildLog}
    \cup {[id |-> "log1", version |-> 1, published |-> 0,
           entries |-> InitialLog(svcs)] :
             svcs \in SeqUpTo({ServiceName, OtherService}, MaxLog)}

\* one batch: a record without and a record with a scraped avatar
LogBatches == {<<RecOf(PersonA, 1), RecOf(PersonB, 2)>>}

LogInit ==
    /\ store = NoEntry
    /\ ProcessStart
    /\ existing = NilSlice /\ newCount = 0 /\ remerged = NilSlice /\ reCount = 0
    /\ mpc = "off"
    /\ kname = <<>> /\ kcompany = <<>> /\ kkey = <<>> /\ kpc = "off"
    /\ runs = 1 /\ peer = PeerOff
    /\ buildLog \in LogInputs /\ logRun = LogRunOff

ScrapeLog == ScrapeFrom(LogBatches, BOOLEAN, {FALSE})

LogNext ==
    \/ ScrapeFails \/ ScrapeLog
    \/ FetchFails \/ FetchNoEntry \/ FetchEntry
    \/ ForceReplace \/ MergeExisting
    \/ UploadSkip \/ UploadOk \/ UploadFails
    \/ CreateOk \/ CreateFails \/ UpdateOk \/ UpdateFails
    \/ PublishOk \/ PublishFails
    \/ BuildLogFetchFails \/ BuildLogFetch
    \/ BuildLogCreateOk \/ BuildLogCreateFails
    \/ BuildLogUpdateOk \/ BuildLogUpdateFails
    \/ BuildLogPublishOk \/ BuildLogPublishFails
    \/ NextRun

SpecLog == LogInit /\ [][LogNext]_vars

(***************************************************************************)
(* Properties of the scrape command                                        *)
(***************************************************************************)
\* Step 3 is behind the run
LogSteps == {"buildlog", "buildlog write", "buildlog publish"}

AfterStep3 == pc \in {"upload", "publish", "done"} \cup LogSteps /\ merged.arr # 0

\* Contentful has taken the create or the update of this run, whether or
\* not the answer has reached the run; no other run writes meanwhile
Persisted == AfterStep3 /\ store.version > result.version

\* the avatar an upload leaves for a scraped avatar reference
EnrichedAvatars(ref) == IF ref = "" THEN {""} ELSE {"", CdnURL(ref)}

\* the avatar a stored JSON object carries
AvatarOf(o) == IF TagAvatarUrl \in DOMAIN o THEN o[TagAvatarUrl] ELSE ""

\* what sync.Merge returns for the arguments the command gave it
MergeReturn ==
    Merge(<<inE, inI>>,
          [arr |-> 1, len |-> Len(inE), cap |-> Len(inE)],
          [arr |-> 2, len |-> Len(inI), cap |-> Len(inI)])

\* The positions the command walks are those of the appended records, in the
\* order of appending, each >= len(existing) and < len(merged); the avatar
\* written through merged[idx] is the avatar of merged[idx] and of the
\* persisted collection.
IndicesPointIntoMerged ==
    (~forceFlag /\ AfterStep3) =>
      LET first == FirstOfNewKey
      IN
        /\ Len(newIndices) = merged.len - Len(inE)
        /\ Len(newIndices) = Cardinality(first)
        /\ \A k \in 1..Len(newIndices) :
              LET idx == newIndices[k]
                  src == inI[NthOf(first, k)]
                  t == MergedNow[idx + 1]
              IN /\ idx = Len(inE) + k - 1
                 /\ idx >= Len(inE) /\ idx < merged.len
                 /\ t.name = src.name /\ t.company = src.company
                 /\ t.quote = src.quote /\ t.role = src.role
                 /\ (k < upPos) => t.avatar \in EnrichedAvatars(src.avatar)
                 /\ (k >= upPos) => t.avatar = src.avatar
                 /\ Persisted =>
                       /\ Len(store.fields["content"]) = merged.len
                       /\ AvatarOf(store.fields["content"][idx + 1])
                             \in EnrichedAvatars(src.avatar)

\* C8: the second result of Merge is the list of the indices in merged of
\* the records it appended, one per appended record in the order of
\* appending, each >= len(existing) and < len(merged); the avatar written
\* through merged[idx] is the avatar of merged[idx] and of the persisted
\* collection.
C8_MergeReturnsIndices ==
    /\ (~forceFlag /\ AfterStep3) =>
          LET second == IntValue(MergeReturn.newCount)
          IN /\ second.type = "[]int"
             /\ second = IntSliceValue(
                    [k \in 1..(merged.len - Len(inE)) |-> Len(inE) + k - 1])
    /\ IndicesPointIntoMerged

\* C9: Merge leaves existing and scraped as they were when it was called,
\* and they stay so while the avatars of merged are written.
C9_InputsNotMutated ==
    (~forceFlag /\ AfterStep3) =>
        /\ Elems(mem, result.testimonials) = inE
        /\ Elems(mem, scraped) = inI
        /\ merged.arr # result.testimonials.arr
        /\ merged.arr # scraped.arr

C9_Witness ==
    /\ ~forceFlag /\ pc = "publish"
    /\ Len(inE) = 2 /\ Len(newIndices) = 1
    /\ inI[1].avatar = "img"
    /\ MergedNow[3].avatar = "cdn:img"
    /\ inE[2].avatar = "cdn:old"

\* C10: with --force the fetched collection is discarded: merged holds one
\* record per scraped record, in scraped order, every one of them is in
\* newly-added (so every one is enriched), and that is what is persisted.
C10_ForceReplacesAll ==
    (forceFlag /\ AfterStep3) =>
        /\ merged.len = Len(inI)
        /\ newIndices = [k \in 1..Len(inI) |-> k - 1]
        /\ \A i \in 1..Len(inI) :
              /\ MergedNow[i].name = inI[i].name
              /\ MergedNow[i].company = inI[i].company
              /\ MergedNow[i].role = inI[i].role
              /\ MergedNow[i].quote = inI[i].quote
              /\ MergedNow[i].linkedin = inI[i].linkedin
              /\ MergedNow[i].avatar \in EnrichedAvatars(inI[i].avatar) \cup {inI[i].avatar}
              /\ (pc # "upload") => MergedNow[i].avatar \in EnrichedAvatars(inI[i].avatar)
        /\ Persisted => store.fields["content"] = MarshalAll(MergedNow)

C10_Witness ==
    /\ forceFlag /\ pc = "done" /\ err = ""
    /\ Len(inE) = 2 /\ Len(inI) = 1
    /\ Len(store.fields["content"]) = 1
    /\ AvatarOf(store.fields["content"][1]) = "cdn:img"
    /\ KeyOf(inE[1]) # KeyOf(inI[1]) /\ KeyOf(inE[2]) # KeyOf(inI[1])

\* C11: the collection the force branch produces holds no two records with
\* the same dedup key.
C11_ForceDedups ==
    (forceFlag /\ AfterStep3) => NoTwoShareKey(MergedNow)

\* the collection of the stored entry, decoded
StoredNow ==
    IF store.id # "" /\ "content" \in DOMAIN store.fields
    THEN UnmarshalAll(store.fields["content"])
    ELSE <<>>

\* C12: a run that fetched a collection with unique keys persists a
\* collection with unique keys, with or without --force.
C12_PersistedKeysUnique ==
    (Persisted /\ NoTwoShareKey(inE)) => NoTwoShareKey(StoredNow)

IsPrefix(a, b) == Len(a) <= Len(b) /\ SubSeq(b, 1, Len(a)) = a

TranslatedQuotes == {Translated(q) : q \in {"quote1", "quote2"}} \ {"quote1", "quote2"}

\* C15: in a run without --force a scraped record carries a translated
\* quote only if it is one of the records Merge appended.
C15_TranslatesOnlyNew ==
    (~forceFlag /\ AfterStep3) =>
        \A i \in 1..Len(inI) :
            inI[i].quote \in TranslatedQuotes => i \in FirstOfNewKey

\* the step in which the avatar of the record under upload is cleared
AvatarDropped ==
    /\ Uploading
    /\ MergedNow[UploadTarget + 1].avatar # ""
    /\ mem'[merged.arr][UploadTarget + 1].avatar = ""

\* C16: a failed avatar upload clears that record's avatar and nothing
\* else, the loop goes on with the next new record, and a run that left
\* the upload loop has sent the whole merged collection to the store; no
\* run ends on an upload error.
C16_UploadFailureDegrades ==
    /\ [][AvatarDropped =>
            /\ pc' = "upload" /\ err' = err /\ upPos' = upPos + 1
            /\ merged' = merged /\ newIndices' = newIndices /\ store' = store
            /\ \A i \in 1..merged.len :
                  mem'[merged.arr][i] =
                      IF i = UploadTarget + 1
                      THEN [MergedNow[i] EXCEPT !.avatar = ""]
                      ELSE MergedNow[i]]_vars
    /\ [](err \in {"", "scrape", "gemini key", "contentful fetch",
                    "contentful create", "contentful update", "contentful publish"})
    /\ []((AfterStep3 /\ pc # "upload" /\ Len(newIndices) > 0) =>
            /\ upPos = Len(newIndices) + 1
            /\ sent = MarshalAll(MergedNow)
            /\ err \in {"", "contentful create", "contentful update",
                         "contentful publish"}
            /\ (pc = "done" /\ err = "") =>
                  /\ store.published = newVersion
                  /\ store.fields["content"] = sent)

C16_Witness ==
    /\ pc = "done" /\ err = "" /\ store.published = newVersion
    /\ Len(newIndices) = 2
    /\ inI[1].avatar = "img" /\ inI[2].avatar = "img"
    /\ Len(StoredNow) = Len(inE) + 2
    /\ StoredNow[Len(inE) + 1].avatar = ""
    /\ StoredNow[Len(inE) + 2].avatar = "cdn:img"

\* C17: the entry an update leaves has the fetched fields under the fetched
\* names with the fetched values, except content, which is the merged
\* collection.
C17_UpdateKeepsOtherFields ==
    (Persisted /\ result.entryID # "") =>
        /\ DOMAIN store.fields = DOMAIN result.rawFields \cup {"content"}
        /\ \A k \in DOMAIN result.rawFields \ {"content"} :
              store.fields[k] = result.rawFields[k]
        /\ store.fields["content"] = MarshalAll(MergedNow)

C17_Witness ==
    /\ Persisted /\ result.entryID # "" /\ pc = "publish"
    /\ store.fields["order"] = "3" /\ store.fields["title"] = "Kind words"
    /\ Len(result.rawFields["content"]) = 1
    /\ Len(store.fields["content"]) = 3

\* both runs have fetched the entry at the same version
SameFetch ==
    /\ result.entryID # ""
    /\ peer.pc # "off"
    /\ peer.version = result.version

\* C18: an update is taken only with the version the run fetched, be it
\* this run's or the second run's and whether or not the answer reaches the
\* run; of two runs that fetched the same version at most one update is
\* taken, the entry keeps the collection of the run whose update was taken,
\* and the other run ends on the update error without publishing.
C18_NoLostUpdate ==
    /\ [][(pc = "upload" /\ pc' # "upload" /\ store' # store) =>
            (store.version = result.version
             /\ store'.version = result.version + 1)]_vars
    /\ [][(pc = "upload" /\ pc' = "publish") =>
            (store' # store /\ newVersion' = result.version + 1)]_vars
    /\ [][(peer.pc = "fetched" /\ peer'.pc # "fetched" /\ store' # store) =>
            (store.version = peer.version
             /\ store'.version = peer.version + 1)]_vars
    /\ [](SameFetch =>
            /\ ~(newVersion # 0 /\ peer.newVersion # 0)
            /\ ~(newVersion # 0 /\ peer.pc = "lost")
            /\ (peer.newVersion # 0 \/ peer.pc = "lost") =>
                  /\ store.fields["content"] = peer.sent
                  /\ UnmarshalAll(peer.sent)
                        = Append(UnmarshalAll(peer.content), ToTestimonial(PeerRecord))
                  /\ (pc = "done" /\ sent # <<>>) =>
                        (err = "contentful update" /\ newVersion = 0)
            /\ (newVersion # 0) =>
                  /\ store.fields["content"] = sent
                  /\ peer.pc \in {"fetched", "failed", "uptodate"})

C18_Witness ==
    /\ SameFetch /\ peer.pc = "published"
    /\ pc = "done" /\ sent # <<>> /\ err = "contentful update"
    /\ store.fields["content"] # sent

\* C19: the steps of a run come in the order fetch existing, fetch new,
\* merge-or-replace, enrich, persist, publish: the batch is scraped and
\* quotes are translated only once the stored collection has been fetched,
\* publish follows a successful persist, and a failed store step ends the
\* run before the later steps.
C19_StepsInOrder ==
    /\ (pc \in {"translate", "fetch"}) => scraped.arr = 0
    /\ (\E i \in 1..scraped.len : mem[scraped.arr][i].quote \in TranslatedQuotes)
          => AfterStep3
    /\ (pc = "publish") => (newVersion # 0 /\ sent # <<>>)
    /\ (err = "contentful fetch") => (merged.arr = 0 /\ sent = <<>>)
    /\ (err \in {"contentful create", "contentful update"}) => newVersion = 0

\* C20: the run creates exactly when the fetch found no entry and updates
\* the fetched entry otherwise; an entry without a collection is fetched as
\* an empty collection and the run goes on to update it.
C20_EntryWithoutCollectionUpdated ==
    /\ (newVersion # 0 /\ result.entryID = "") => newVersion = 1
    /\ (newVersion # 0 /\ result.entryID # "") =>
          (entryID = result.entryID /\ newVersion = result.version + 1)
    /\ (store.id # "" /\ "content" \notin DOMAIN store.fields /\ pc = "done")
          => err # "contentful fetch" \/ result = NoResult

\* the avatar references the scraper delivers
TransientAvatars == {r.avatar : r \in ScrapedInputs} \ {""}

\* the scraped record behind the k-th newly added index, first being the
\* positions of the batch that open a new key
SourceOfNew(first, k) ==
    IF forceFlag THEN inI[k] ELSE inI[NthOf(first, k)]

C22_SameConversion ==
    (~forceFlag /\ pc = "upload" /\ upPos = 1) =>
        \A k \in 1..Len(newIndices) :
            MergedNow[newIndices[k] + 1] = ToTestimonialForce(SourceOfNew(FirstOfNewKey, k))

\* the run has written the build log
LogWritten == logRun.all # <<>> /\ buildLog.version > logRun.version

\* the entries of seq at the positions idx, in order
Picked(seq, idx) ==
    [k \in 1..Cardinality(idx) |-> seq[NthOf(idx, k)]]

OwnAt(seq) == {i \in 1..Len(seq) : seq[i].service = ServiceName}
OtherAt(seq) == {i \in 1..Len(seq) : seq[i].service # ServiceName}

\* C25: the build log a run writes holds the fetched entries of other
\* services, unchanged and in fetched order, then the entries of this
\* service: the fetched ones (only the last 2 of them when 3 or more were
\* fetched) and the entry of this run last; never more than 3 of its own.
C25_BuildLogRetention ==
    LogWritten =>
        LET f == logRun.fetched
            w == buildLog.entries
            others == Picked(f, OtherAt(f))
            own == Picked(f, OwnAt(f))
            kept == IF Len(own) >= 3 THEN 2 ELSE Len(own)
        IN /\ Len(w) = Len(others) + kept + 1
           /\ SubSeq(w, 1, Len(others)) = others
           /\ SubSeq(w, Len(others) + 1, Len(w) - 1)
                 = SubSeq(own, Len(own) - kept + 1, Len(own))
           /\ \E triggeredBy \in TriggeredBy : w[Len(w)] = LogEntry(triggeredBy)
           /\ w[Len(w)].service = ServiceName
           /\ w[Len(w)].timestamp = runs
           /\ w[Len(w)].newAdded = Len(newIndices)
           /\ w[Len(w)].totalAfterSync = merged.len
           /\ Cardinality(OwnAt(w)) <= 3
           /\ OwnAt(w) = (Len(others) + 1)..Len(w)

C25_Witness ==
    /\ LogWritten /\ pc = "done" /\ runs = 2
    /\ Len(logRun.fetched) = 4
    /\ Cardinality(OwnAt(logRun.fetched)) = 3
    /\ logRun.fetched[1].service = OtherService
    /\ logRun.fetched[2].timestamp = -2
    /\ logRun.fetched[4].timestamp = 1
    /\ Len(buildLog.entries) = 4
    /\ buildLog.entries[1].service = OtherService
    /\ buildLog.entries[2].timestamp = 0
    /\ buildLog.entries[3].timestamp = 1
    /\ buildLog.entries[4].timestamp = 2

\* the run found nothing to write: the scrape returned zero records, or
\* the merge found no new record
NothingToWrite ==
    \/ scraped.arr # 0 /\ scraped.len = 0
    \/ ~forceFlag /\ merged.arr # 0 /\ Len(newIndices) = 0

\* the steps that upload, create, update, publish or write the build log
WritingSteps == {"upload", "publish"} \cup LogSteps

\* C23: a run with nothing to write ends successfully without having
\* uploaded, created, updated, published or written the build log; the
\* store and the build log change only in runs that add a record, and what
\* is persisted is never an empty collection.
C23_NothingToWrite ==
    /\ [](NothingToWrite =>
             /\ pc = "done" /\ err = ""
             /\ sent = <<>> /\ entryID = "" /\ newVersion = 0
             /\ logRun = LogRunOff)
    /\ [](pc \in WritingSteps => (Len(newIndices) > 0 /\ merged.len > 0))
    /\ [][(store' # store \/ buildLog' # buildLog) =>
             (~NothingToWrite' /\ pc \in WritingSteps
              /\ Len(newIndices) > 0 /\ Len(StoredNow') > 0)]_vars
    /\ [][NothingToWrite' => (store' = store /\ buildLog' = buildLog)]_vars

C23_Witness ==
    /\ pc = "done" /\ err = "" /\ ~forceFlag
    /\ merged.arr # 0 /\ Len(newIndices) = 0 /\ scraped.len = 2
    /\ result.entryID # "" /\ store.version = result.version
    /\ store.fields = result.rawFields
    /\ sent = <<>> /\ newVersion = 0

\* C24: PublishEntry gets the identifier and the version the create or
\* the update of this run returned, never the fetched version, and a run
\* calls it at most once for the testimonials entry.
C24_PublishesReturnedVersion ==
    /\ [](pc = "publish" =>
             /\ PublishVersion = newVersion
             /\ PublishVersion = (IF result.entryID = "" THEN 1
                                   ELSE result.version + 1)
             /\ PublishVersion # result.version
             /\ PublishVersion = store.version
             /\ entryID = store.id
             /\ result.entryID # "" => entryID = result.entryID)
    /\ [][store'.published # store.published =>
             (pc = "publish" /\ store'.published = newVersion
              /\ store.id = entryID)]_vars
    /\ [][pc' = "publish" => pc \in {"upload", "publish"}]_vars
    /\ [][pc = "publish" => pc' \in {"publish", "buildlog", "done"}]_vars
    /\ [][(pc \in (LogSteps \cup {"done"})) => (pc' # "publish")]_vars

C24_Witness ==
    /\ pc = "buildlog" /\ result.entryID # "" /\ result.version = 1
    /\ newVersion = 2 /\ store.published = 2 /\ store.version = 3
    /\ store.id = entryID

====
